---- MODULE Spec2Model ----
(***************************************************************************)
(* A state-machine model of the image studio front end:                    *)
(*   - DragDropZone (file ingestion: processFiles and its FileReader        *)
(*     callbacks, removal, clear-all),                                      *)
(*   - App (prompt, source images, generation request, session history),    *)
(*   - ZoomableImage (scale / translation / drag state machine).            *)
(* The repository holds two builds of App, DragDropZone and the generation  *)
(* service ("wasti": src/unnamed/part_000 with DragDropZone.tsx 1-107, and  *)
(* "nano": src/unnamed/part_001 with DragDropZone.tsx 108-331); the         *)
(* variable app says which one is mounted.                                  *)
(*                                                                          *)
(* Strings that the code takes apart (MIME types, data URLs, prompts) are   *)
(* sequences of tokens, so that startsWith, trim and the regular            *)
(* expression of handleRestoreHistory are computed, not assumed.            *)
(* Scale is kept in units of the wheel coefficient 0.002 (1.0 = 500 units), *)
(* which makes every zoom step an integer.                                  *)
(***************************************************************************)
EXTENDS Integers, Sequences, FiniteSets, TLC

VARIABLES
    app,             \* the mounted build: "wasti" or "nano"
    \* ---- App state (useState hooks) ----
    prompt,          \* textarea content, a sequence of characters
    sourceImages,    \* ImageState[]: sequence of [data, mimeType]
    generatedImage,  \* data URL of the displayed result, or Null
    isLoading,       \* busy flag
    error,           \* error message or Null
    aspectRatio,     \* selected aspect ratio
    history,         \* GeneratedImage[], newest first
    requests,        \* outstanding generateOrEditImage calls (suspended handleGenerate closures)
    now,             \* Date.now()
    copies,          \* handleCopyToClipboard calls suspended at an await (wasti build)
    isCopied,        \* the "copied" mark of the copy button
    copiedTimers,    \* armed setTimeout(() => setIsCopied(false), 2000) timers
    \* ---- DragDropZone ----
    batches,         \* in-flight processFiles invocations (their closures)
    \* ---- ZoomableImage state ----
    src,             \* the src prop; Null while the component is not mounted
    scale,           \* in units of 0.002
    position,        \* [x, y]
    isDragging,
    dragStart,       \* [x, y]
    showHint,
    hintTimeoutRef,  \* TRUE while hintTimeoutRef.current names an armed timer
    hintTimers,      \* the number of armed hint timers
    \* ---- observation (history variables, read by the properties only) ----
    lastEvent,       \* the handler or callback that ran last, with what it saw and did
    dragAnchor,      \* translation and pointer position at the mouse-down that
                     \* started the drag in progress (NoAnchor outside a drag)
    subs             \* the batches submitted together since the zone was last idle,
                     \* while nothing but their own callbacks has run (at most two)

appVars   == <<prompt, sourceImages, generatedImage, isLoading, error, aspectRatio,
               history, requests, now>>
copyVars  == <<copies, isCopied, copiedTimers>>
zoneVars  == <<batches>>
viewVars  == <<src, scale, position, isDragging, dragStart, showHint, hintTimeoutRef,
               hintTimers>>
obsVars   == <<lastEvent, dragAnchor, subs>>
vars      == <<app, appVars, copyVars, zoneVars, viewVars, obsVars>>

Null == "null"

-----------------------------------------------------------------------------
(* Bounds of the model *)

MaxFiles   == 2     \* files in one drop / selection / paste
MaxBatches == 2     \* processFiles invocations in flight together
MaxImages  == 2     \* length of the source-image list

-----------------------------------------------------------------------------
(* Tokenised strings *)

PNG  == <<"image/", "png">>
JPEG == <<"image/", "jpeg">>
TXT  == <<"text/", "plain">>

\* file.type.startsWith('image/')
StartsWithImage(type) == Len(type) > 0 /\ type[1] = "image/"

\* items[i].type.indexOf('image') !== -1
IndexOfImage(type) == \E k \in 1..Len(type) : type[k] = "image/"

Files == { [type |-> PNG,  bytes |-> "f1"],
           [type |-> JPEG, bytes |-> "f2"],
           [type |-> TXT,  bytes |-> "f3"] }

FileLists == UNION { [1..n -> Files] : n \in 0..MaxFiles }

\* FileReader.readAsDataURL: "data:<type>;base64,<bytes>"
ReadAsDataURL(file) == <<"data:">> \o file.type \o <<";", "base64,", file.bytes>>

RemoveAt(s, i) == [k \in 1..(Len(s) - 1) |-> IF k < i THEN s[k] ELSE s[k + 1]]

-----------------------------------------------------------------------------
(* DragDropZone *)

RECURSIVE ForEachFile(_, _, _)
\* The synchronous filesArray.forEach of processFiles: files that are not
\* images are counted at once, the others get a FileReader whose onload runs
\* later.  st = [processedCount, newImages, readers, commit].
ForEachFile(files, i, st) ==
    IF i > Len(files) THEN st
    ELSE IF ~StartsWithImage(files[i].type)
         THEN LET c == st.processedCount + 1
                  \* only the nano build tests for a commit in this branch
                  commit == /\ app = "nano"
                            /\ c = Len(files)
                            /\ Len(st.newImages) > 0
              IN  ForEachFile(files, i + 1,
                      [st EXCEPT !.processedCount = c,
                                 !.commit = (@ \/ commit)])
         ELSE ForEachFile(files, i + 1, [st EXCEPT !.readers = @ \cup {i}])

\* The newImages.push of reader.onload
PushImage(newImages, img) == Append(newImages, img)

\* onImagesChange([...currentImages, ...newImages])
CommitList(currentImages, newImages) == currentImages \o newImages

\* processFiles committing whenever the synchronous pass has counted every file
ProcessFiles_CommitWhenCounted(files) ==
    IF Len(files) = 0
    THEN /\ UNCHANGED <<sourceImages, batches, subs>>
         /\ lastEvent' = [op |-> "processFiles", commit |-> FALSE, files |-> files]
    ELSE LET st == ForEachFile(files, 1,
                       [processedCount |-> 0, newImages |-> <<>>,
                        readers |-> {}, commit |-> FALSE])
             B  == [currentImages  |-> sourceImages,
                    filesArray     |-> files,
                    newImages      |-> st.newImages,
                    processedCount |-> st.processedCount,
                    readers        |-> st.readers]
             sub  == [base |-> sourceImages, files |-> files]
             list == CommitList(sourceImages, st.newImages)
             done == st.commit \/ st.processedCount = Len(files)
         IN  /\ batches' = IF st.readers = {} THEN batches ELSE Append(batches, B)
             /\ sourceImages' = IF done THEN list ELSE sourceImages
             /\ subs' = IF st.readers = {} THEN subs
                        ELSE IF batches = <<>> THEN <<sub>>
                        ELSE IF Len(subs) = 1 THEN Append(subs, sub)
                        ELSE <<>>
             /\ lastEvent' = IF done
                              THEN [op |-> "processFiles", commit |-> TRUE,
                                    base |-> sourceImages, files |-> files,
                                    list |-> list]
                              ELSE [op |-> "processFiles", commit |-> FALSE,
                                    files |-> files]

\* processFiles(files), called with the closure of the current render
ProcessFiles(files) ==
    IF Len(files) = 0
    THEN /\ UNCHANGED <<sourceImages, batches, subs>>
         /\ lastEvent' = [op |-> "processFiles", commit |-> FALSE, files |-> files]
    ELSE LET st == ForEachFile(files, 1,
                       [processedCount |-> 0, newImages |-> <<>>,
                        readers |-> {}, commit |-> FALSE])
             B  == [currentImages  |-> sourceImages,
                    filesArray     |-> files,
                    newImages      |-> st.newImages,
                    processedCount |-> st.processedCount,
                    readers        |-> st.readers]
             sub  == [base |-> sourceImages, files |-> files]
             list == CommitList(sourceImages, st.newImages)
         IN  /\ batches' = IF st.readers = {} THEN batches ELSE Append(batches, B)
             /\ sourceImages' = IF st.commit THEN list ELSE sourceImages
             /\ subs' = IF st.readers = {} THEN subs
                        ELSE IF batches = <<>> THEN <<sub>>
                        ELSE IF Len(subs) = 1 THEN Append(subs, sub)
                        ELSE <<>>
             /\ lastEvent' = IF st.commit
                              THEN [op |-> "processFiles", commit |-> TRUE,
                                    base |-> sourceImages, files |-> files,
                                    list |-> list]
                              ELSE [op |-> "processFiles", commit |-> FALSE,
                                    files |-> files]

\* Room for the images a batch may add (bound of the model)
Room(files) == /\ Len(batches) < MaxBatches
               /\ Len(sourceImages) + Len(files) <= MaxImages

\* handleDrop; the wasti zone has no drop target once images are shown
HandleDrop(files) ==
    /\ app = "wasti" => sourceImages = <<>>
    /\ Room(files)
    /\ ProcessFiles(files)
    /\ UNCHANGED <<app, dragAnchor, copyVars, prompt, generatedImage, isLoading,
                   error, aspectRatio,
                   history, requests, now, viewVars>>

\* the file input's onChange (handleFileSelect)
HandleFileSelect(files) ==
    /\ Room(files)
    /\ ProcessFiles(files)
    /\ UNCHANGED <<app, dragAnchor, copyVars, prompt, generatedImage, isLoading,
                   error, aspectRatio,
                   history, requests, now, viewVars>>

\* filesToProcess of handlePaste: the clipboard items whose type mentions 'image'
RECURSIVE PasteFilter(_)
PasteFilter(items) ==
    IF items = <<>> THEN <<>>
    ELSE (IF IndexOfImage(Head(items).type) THEN <<Head(items)>> ELSE <<>>)
         \o PasteFilter(Tail(items))

\* the window 'paste' listener (nano build only)
HandlePaste(items) ==
    /\ app = "nano"
    /\ Room(items)
    /\ LET filesToProcess == PasteFilter(items)
       IN  IF Len(filesToProcess) > 0
           THEN ProcessFiles(filesToProcess)
           ELSE /\ UNCHANGED <<sourceImages, batches, subs>>
                /\ lastEvent' = [op |-> "paste", commit |-> FALSE,
                                 files |-> filesToProcess]
    /\ UNCHANGED <<app, dragAnchor, copyVars, prompt, generatedImage, isLoading,
                   error, aspectRatio,
                   history, requests, now, viewVars>>

\* processedCount === filesArray.length
BatchDone(processedCount, filesArray) == processedCount = Len(filesArray)

\* reader.onload of file i of batch b
OnLoad(b, i) ==
    /\ b \in 1..Len(batches)
    /\ i \in batches[b].readers
    /\ LET B              == batches[b]
           file           == B.filesArray[i]
           newImages      == PushImage(B.newImages,
                                 [data |-> ReadAsDataURL(file), mimeType |-> file.type])
           processedCount == B.processedCount + 1
           readers        == B.readers \ {i}
           commit         == BatchDone(processedCount, B.filesArray)
           list           == CommitList(B.currentImages, newImages)
       IN  /\ sourceImages' = IF commit THEN list ELSE sourceImages
           /\ batches' = IF readers = {}
                         THEN RemoveAt(batches, b)
                         ELSE [batches EXCEPT ![b] =
                                  [B EXCEPT !.newImages = newImages,
                                            !.processedCount = processedCount,
                                            !.readers = readers]]
           /\ lastEvent' = IF commit
                            THEN [op |-> "onload", commit |-> TRUE,
                                  base |-> B.currentImages,
                                  files |-> B.filesArray, list |-> list,
                                  read |-> Len(newImages),
                                  pending |-> Cardinality(readers)]
                            ELSE [op |-> "onload", commit |-> FALSE,
                                  base |-> B.currentImages,
                                  files |-> B.filesArray,
                                  read |-> Len(newImages),
                                  pending |-> Cardinality(readers)]
    /\ UNCHANGED subs
    /\ UNCHANGED <<app, dragAnchor, copyVars, prompt, generatedImage, isLoading,
                   error, aspectRatio,
                   history, requests, now, viewVars>>

\* A read that fails: the reader has no onerror handler, so nothing runs
ReadError(b, i) ==
    /\ b \in 1..Len(batches)
    /\ i \in batches[b].readers
    /\ LET B == batches[b]
           readers == B.readers \ {i}
       IN  batches' = IF readers = {}
                      THEN RemoveAt(batches, b)
                      ELSE [batches EXCEPT ![b] = [B EXCEPT !.readers = readers]]
    /\ subs' = <<>>
    /\ lastEvent' = [op |-> "readError", commit |-> FALSE,
                     base |-> batches[b].currentImages,
                     files |-> batches[b].filesArray,
                     read |-> Len(batches[b].newImages),
                     pending |-> Cardinality(batches[b].readers \ {i})]
    /\ UNCHANGED <<app, dragAnchor, copyVars, appVars, viewVars>>

Splice_RemovesLast(images, index) == SubSeq(images, 1, Len(images) - 1)

\* next = [...currentImages]; next.splice(index, 1)
Splice(images, index) == RemoveAt(images, index)

\* removeImage / handleRemove: splice(index, 1) on a copy of currentImages
HandleRemove(index) ==
    /\ index \in 1..Len(sourceImages)
    /\ sourceImages' = Splice(sourceImages, index)
    /\ subs' = <<>>
    /\ lastEvent' = [op |-> "remove", commit |-> FALSE, index |-> index]
    /\ UNCHANGED batches
    /\ UNCHANGED <<app, dragAnchor, copyVars, prompt, generatedImage, isLoading,
                   error, aspectRatio,
                   history, requests, now, viewVars>>

\* clearAll (nano build; shown while the list is not empty)
ClearAll ==
    /\ app = "nano"
    /\ Len(sourceImages) > 0
    /\ sourceImages' = <<>>
    /\ subs' = <<>>
    /\ lastEvent' = [op |-> "clearAll", commit |-> FALSE]
    /\ UNCHANGED batches
    /\ UNCHANGED <<app, dragAnchor, copyVars, prompt, generatedImage, isLoading,
                   error, aspectRatio,
                   history, requests, now, viewVars>>

-----------------------------------------------------------------------------
(* App: prompt, generation request, session history *)

MaxHistory == 2     \* generations recorded or under way
MaxNow     == 1     \* Date.now() is 0..MaxNow

PromptInputs == { <<>>, <<" ">>, <<"a">>, <<" ", "b">> }   \* what the user may type
Ratios       == { "1:1", "16:9" }                         \* entries of ASPECT_RATIOS
RandomSuffixes == { "", "k" }     \* Math.random().toString(36).substring(7)

RECURSIVE TrimStart(_)
TrimStart(str) ==
    IF str # <<>> /\ Head(str) = " " THEN TrimStart(Tail(str)) ELSE str

RECURSIVE TrimEnd(_)
TrimEnd(str) ==
    IF str # <<>> /\ str[Len(str)] = " "
    THEN TrimEnd(SubSeq(str, 1, Len(str) - 1)) ELSE str

\* String.prototype.trim
Trim(str) == TrimEnd(TrimStart(str))

\* !prompt.trim()
PromptBlank == Trim(prompt) = <<>>

\* ---- the generation service (generateOrEditImage) ----

InlinePart(mimeType, data) ==
    [kind |-> "inlineData", mimeType |-> mimeType, data |-> data, text |-> ""]
TextPart(text) ==
    [kind |-> "text", mimeType |-> <<>>, data |-> "", text |-> text]

\* what ai.models.generateContent may come back with: a response (a list of
\* candidates, each the parts of its content) or a rejection with a message
Responses ==
    { [rejected |-> FALSE, message |-> <<>>, candidates |-> <<>>],
      [rejected |-> FALSE, message |-> <<>>, candidates |-> << <<>> >>],
      [rejected |-> FALSE, message |-> <<>>,
       candidates |-> << <<InlinePart(PNG, "r1")>> >>],
      [rejected |-> FALSE, message |-> <<>>,
       candidates |-> << <<TextPart("sorry"), InlinePart(JPEG, "r2")>> >>],
      [rejected |-> FALSE, message |-> <<>>,
       candidates |-> << <<TextPart("sorry")>> >>],
      [rejected |-> TRUE, message |-> <<"quota">>, candidates |-> <<>>],
      [rejected |-> TRUE, message |-> <<>>, candidates |-> <<>>] }

\* `data:${part.inlineData.mimeType};base64,${part.inlineData.data}`
InlineDataURL(part) == <<"data:">> \o part.mimeType \o <<";", "base64,", part.data>>

Throw(message) == [ok |-> FALSE, value |-> <<>>, message |-> message]
Return(value)  == [ok |-> TRUE, value |-> value, message |-> <<>>]

\* the parsing with the two loops over the parts in the other order
ParseResponse_TextFirst(response) ==
    IF Len(response.candidates) > 0
    THEN LET parts  == response.candidates[1]
             images == {k \in 1..Len(parts) : parts[k].kind = "inlineData"}
             texts  == {k \in 1..Len(parts) : parts[k].kind = "text" /\ parts[k].text # ""}
             first(S) == CHOOSE k \in S : \A j \in S : k <= j
         IN  IF texts # {}
             THEN Throw(<<"Model returned text instead of image: ",
                          parts[first(texts)].text>>)
             ELSE IF images # {} THEN Return(InlineDataURL(parts[first(images)]))
                  ELSE Throw(<<"No image generated. The model response was empty or invalid.">>)
    ELSE Throw(<<"No image generated. The model response was empty or invalid.">>)

\* the parsing of the response, inside the try block
ParseResponse(response) ==
    IF Len(response.candidates) > 0
    THEN LET parts  == response.candidates[1]
             images == {k \in 1..Len(parts) : parts[k].kind = "inlineData"}
             texts  == {k \in 1..Len(parts) : parts[k].kind = "text" /\ parts[k].text # ""}
             first(S) == CHOOSE k \in S : \A j \in S : k <= j
         IN  IF images # {} THEN Return(InlineDataURL(parts[first(images)]))
             ELSE IF texts # {}
                  THEN Throw(<<"Model returned text instead of image: ",
                               parts[first(texts)].text>>)
                  ELSE Throw(<<"No image generated. The model response was empty or invalid.">>)
    ELSE Throw(<<"No image generated. The model response was empty or invalid.">>)

\* generateOrEditImage: the call, the parsing, and the catch that rethrows
\* new Error(error.message || "Failed to process image request.")
GenerateOrEditImage(response) ==
    LET r == IF response.rejected THEN Throw(response.message)
             ELSE ParseResponse(response)
    IN  IF r.ok THEN r
        ELSE Throw(IF r.message # <<>> THEN r.message
                   ELSE <<"Failed to process image request.">>)

\* ---- App handlers ----

\* onChange of the textarea
SetPrompt(p) ==
    /\ prompt' = p
    /\ lastEvent' = [op |-> "setPrompt"]
    /\ UNCHANGED <<app, dragAnchor, copyVars, sourceImages, generatedImage,
                   isLoading, error,
                   aspectRatio,
                   history, requests, now, zoneVars, viewVars, subs>>

\* the aspect-ratio selector
SetAspectRatio(r) ==
    /\ aspectRatio' = r
    /\ lastEvent' = [op |-> "setAspectRatio"]
    /\ UNCHANGED <<app, dragAnchor, copyVars, prompt, sourceImages, generatedImage,
                   isLoading,
                   error,
                   history, requests, now, zoneVars, viewVars, subs>>

\* the clock advances
Tick ==
    /\ now < MaxNow
    /\ now' = now + 1
    /\ lastEvent' = [op |-> "tick"]
    /\ UNCHANGED <<app, dragAnchor, copyVars, prompt, sourceImages, generatedImage,
                   isLoading,
                   error,
                   aspectRatio, history, requests, zoneVars, viewVars, subs>>

\* disabled={!prompt.trim() || isLoading} of the submit Button (Button.tsx
\* adds "|| isLoading" once more)
SubmitDisabled == (PromptBlank \/ isLoading) \/ isLoading

SkipsGenerate_PromptOnly == PromptBlank

\* the early return of handleGenerate: "!prompt.trim() || isLoading" in the
\* wasti build, "!prompt.trim()" in the nano build
SkipsGenerate ==
    IF app = "wasti" THEN PromptBlank \/ isLoading ELSE PromptBlank

RequestOf_Trimmed(p, images, ratio) ==
    [prompt |-> Trim(p), sourceImages |-> images, aspectRatio |-> ratio]

\* the arguments of the generateOrEditImage call
RequestOf(p, images, ratio) ==
    [prompt |-> p, sourceImages |-> images, aspectRatio |-> ratio]

\* handleGenerate up to its await
HandleGenerate(ev) ==
    IF SkipsGenerate
    THEN /\ lastEvent' = [op |-> ev, sent |-> FALSE, busy |-> isLoading]
         /\ UNCHANGED <<isLoading, error, requests>>
    ELSE /\ isLoading' = TRUE
         /\ error' = Null
         /\ requests' = Append(requests, RequestOf(prompt, sourceImages, aspectRatio))
         /\ lastEvent' = [op |-> ev, sent |-> TRUE, busy |-> isLoading]

\* a click on the submit button
ClickGenerate ==
    /\ ~SubmitDisabled
    /\ Len(history) + Len(requests) < MaxHistory
    /\ HandleGenerate("click")
    /\ UNCHANGED <<app, dragAnchor, copyVars, prompt, sourceImages, generatedImage,
                   aspectRatio,
                   history,
                   now, zoneVars, viewVars, subs>>

\* handleKeyDown: Enter without Shift in the textarea (wasti build)
HandleKeyDown ==
    /\ app = "wasti"
    /\ Len(history) + Len(requests) < MaxHistory
    /\ HandleGenerate("keyDown")
    /\ UNCHANGED <<app, dragAnchor, copyVars, prompt, sourceImages, generatedImage,
                   aspectRatio,
                   history,
                   now, zoneVars, viewVars, subs>>

Record_AtEnd(item, prev) == Append(prev, item)

\* setHistory(prev => [newHistoryItem, ...prev])
Record(item, prev) == <<item>> \o prev

NewHistoryItem_FromCurrentState(req, result, suffix) ==
    [id           |-> <<now, suffix>>,
     url          |-> result,
     prompt       |-> prompt,
     sourceImages |-> [k \in 1..Len(sourceImages) |-> sourceImages[k].data],
     timestamp    |-> now]

\* newHistoryItem, built from the closure of the handleGenerate call
NewHistoryItem(req, result, suffix) ==
    [id           |-> <<now, suffix>>,
     url          |-> result,
     prompt       |-> req.prompt,
     sourceImages |-> [k \in 1..Len(req.sourceImages) |-> req.sourceImages[k].data],
     timestamp    |-> now]

LoadingAfterSettle_OnlyOnSuccess(ok) == ~ok

\* finally { setIsLoading(false) }: the flag after the call has settled
LoadingAfterSettle(ok) == FALSE

\* handleGenerate whose catch also takes the displayed image away
GenerateSettles_FailureClearsImage(k, response, suffix) ==
    /\ k \in 1..Len(requests)
    /\ LET req == requests[k]
           r   == GenerateOrEditImage(response)
       IN  /\ IF r.ok
              THEN /\ generatedImage' = r.value
                   /\ history' = Record(NewHistoryItem(req, r.value, suffix), history)
                   /\ UNCHANGED error
              ELSE /\ error' = (IF r.message # <<>> THEN r.message
                                ELSE <<"An unexpected error occurred.">>)
                   /\ generatedImage' = Null
                   /\ UNCHANGED history
           /\ lastEvent' = [op |-> "settled", ok |-> r.ok, request |-> req,
                            value |-> r.value, response |-> response,
                            thrown |-> r.message]
    /\ isLoading' = LoadingAfterSettle(GenerateOrEditImage(response).ok)
    /\ requests' = RemoveAt(requests, k)
    /\ UNCHANGED <<app, dragAnchor, copyVars, prompt, sourceImages, aspectRatio, now,
                   zoneVars,
                   viewVars, subs>>

\* handleGenerate after its await: the call of request k settles
GenerateSettles(k, response, suffix) ==
    /\ k \in 1..Len(requests)
    /\ LET req == requests[k]
           r   == GenerateOrEditImage(response)
       IN  /\ IF r.ok
              THEN /\ generatedImage' = r.value
                   /\ history' = Record(NewHistoryItem(req, r.value, suffix), history)
                   /\ UNCHANGED error
              ELSE /\ error' = (IF r.message # <<>> THEN r.message
                                ELSE <<"An unexpected error occurred.">>)
                   /\ UNCHANGED <<generatedImage, history>>
           /\ lastEvent' = [op |-> "settled", ok |-> r.ok, request |-> req,
                            value |-> r.value, response |-> response,
                            thrown |-> r.message]
    /\ isLoading' = LoadingAfterSettle(GenerateOrEditImage(response).ok)
    /\ requests' = RemoveAt(requests, k)
    /\ UNCHANGED <<app, dragAnchor, copyVars, prompt, sourceImages, aspectRatio, now,
                   zoneVars,
                   viewVars, subs>>

\* ---- history and references ----

\* data.match(/data:([^;]+);/): the tokens between the first "data:" that is
\* followed by at least one token other than ";" and the ";" after them
MimeMatch(data) ==
    LET starts == {k \in 1..Len(data) :
                     /\ data[k] = "data:"
                     /\ \E j \in (k + 2)..Len(data) :
                           /\ data[j] = ";"
                           /\ \A m \in (k + 1)..(j - 1) : data[m] # ";"}
    IN  IF starts = {} THEN <<>>
        ELSE LET k == CHOOSE a \in starts : \A b \in starts : a <= b
                 j == CHOOSE a \in (k + 2)..Len(data) :
                         /\ data[a] = ";"
                         /\ \A m \in (k + 1)..(a - 1) : data[m] # ";"
             IN  SubSeq(data, k + 1, j - 1)

RestoredMimeType_Fixed(data) == PNG

\* mimeMatch ? mimeMatch[1] : 'image/png'
RestoredMimeType(data) ==
    IF MimeMatch(data) # <<>> THEN MimeMatch(data) ELSE PNG

\* handleRestoreHistory that also moves the restored entry to the front
HandleRestoreHistory_MovesToFront(n) ==
    /\ app = "nano"
    /\ n \in 1..Len(history)
    /\ LET item == history[n]
       IN  /\ generatedImage' = item.url
           /\ prompt' = item.prompt
           /\ sourceImages' =
                 IF Len(item.sourceImages) > 0
                 THEN [k \in 1..Len(item.sourceImages) |->
                          [data |-> item.sourceImages[k],
                           mimeType |-> RestoredMimeType(item.sourceImages[k])]]
                 ELSE <<>>
           /\ lastEvent' = [op |-> "restore", item |-> item]
    /\ history' = <<history[n]>> \o RemoveAt(history, n)
    /\ subs' = <<>>
    /\ UNCHANGED <<app, dragAnchor, copyVars, isLoading, error, aspectRatio,
                   requests, now,
                   zoneVars, viewVars>>

\* handleRestoreHistory (nano build): a click on a history tile
HandleRestoreHistory(n) ==
    /\ app = "nano"
    /\ n \in 1..Len(history)
    /\ LET item == history[n]
       IN  /\ generatedImage' = item.url
           /\ prompt' = item.prompt
           /\ sourceImages' =
                 IF Len(item.sourceImages) > 0
                 THEN [k \in 1..Len(item.sourceImages) |->
                          [data |-> item.sourceImages[k],
                           mimeType |-> RestoredMimeType(item.sourceImages[k])]]
                 ELSE <<>>
           /\ lastEvent' = [op |-> "restore", item |-> item]
    /\ subs' = <<>>
    /\ UNCHANGED <<app, dragAnchor, copyVars, isLoading, error, aspectRatio, history,
                   requests, now,
                   zoneVars, viewVars>>

\* the onClick of a history tile in the wasti build
HandleHistoryClick(n) ==
    /\ app = "wasti"
    /\ n \in 1..Len(history)
    /\ generatedImage' = history[n].url
    /\ prompt' = history[n].prompt
    /\ lastEvent' = [op |-> "historyClick", item |-> history[n]]
    /\ UNCHANGED <<app, dragAnchor, copyVars, sourceImages, isLoading, error,
                   aspectRatio, history,
                   requests, now, zoneVars, viewVars, subs>>

\* prev.filter(item => item.id !== id)
RECURSIVE FilterOutId(_, _)
FilterOutId(prev, id) ==
    IF prev = <<>> THEN <<>>
    ELSE (IF Head(prev).id # id THEN <<Head(prev)>> ELSE <<>>)
         \o FilterOutId(Tail(prev), id)

\* handleDeleteHistory (nano build): the delete button of tile n
HandleDeleteHistory(n) ==
    /\ app = "nano"
    /\ n \in 1..Len(history)
    /\ history' = FilterOutId(history, history[n].id)
    /\ lastEvent' = [op |-> "delete", id |-> history[n].id]
    /\ UNCHANGED <<app, dragAnchor, copyVars, prompt, sourceImages, generatedImage,
                   isLoading,
                   error,
                   aspectRatio, requests, now, zoneVars, viewVars, subs>>

\* "Clear All" / "Clear Library": setHistory([])
ClearHistory ==
    /\ Len(history) > 0
    /\ history' = <<>>
    /\ lastEvent' = [op |-> "clearHistory"]
    /\ UNCHANGED <<app, dragAnchor, copyVars, prompt, sourceImages, generatedImage,
                   isLoading,
                   error,
                   aspectRatio, requests, now, zoneVars, viewVars, subs>>

\* handleUseAsReference (nano build); its button is rendered while an image
\* is displayed, and the handler tests for the image once more
HandleUseAsReference ==
    /\ app = "nano"
    /\ IF generatedImage # Null
       THEN /\ Len(sourceImages) < MaxImages
            /\ sourceImages' = Append(sourceImages,
                                       [data |-> generatedImage, mimeType |-> PNG])
            /\ generatedImage' = Null
            /\ lastEvent' = [op |-> "useAsReference", applied |-> TRUE]
       ELSE /\ UNCHANGED <<sourceImages, generatedImage>>
            /\ lastEvent' = [op |-> "useAsReference", applied |-> FALSE]
    /\ subs' = <<>>
    /\ UNCHANGED <<app, dragAnchor, copyVars, prompt, isLoading, error, aspectRatio,
                   history,
                   requests,
                   now, zoneVars, viewVars>>

-----------------------------------------------------------------------------
(* ZoomableImage *)

UnitsPerOne == 500                  \* 1.0 of scale, in units of the wheel coefficient 0.002
MinScale    == 1 * UnitsPerOne      \* Math.max(1, ...)
MaxScale    == 8 * UnitsPerOne      \* Math.min(..., 8)
ZoomStep    == UnitsPerOne \div 2   \* 0.5

MaxClient == 1     \* pointer coordinates are 0..MaxClient
MaxPan    == 1     \* translations are kept within -MaxPan..MaxPan

Clients      == 0..MaxClient
WheelDeltaYs == {-4000, -375, 375, 4000}    \* e.deltaY
Srcs         == {"imgA", "imgB"}

Origin == [x |-> 0, y |-> 0]

Min(a, b) == IF a < b THEN a ELSE b
Max(a, b) == IF a > b THEN a ELSE b

WheelScale_NoUpperClamp(prev, delta) == Max(MinScale, prev + delta)

\* Math.min(Math.max(1, prev + delta), 8) of handleWheel
WheelScale(prev, delta) == Min(Max(MinScale, prev + delta), MaxScale)

ZoomInScale_Unclamped(s) == s + ZoomStep

\* Math.min(s + 0.5, 8) of zoomIn
ZoomInScale(s) == Min(s + ZoomStep, MaxScale)

\* Math.max(1, s - 0.5) of zoomOut
ZoomOutScale(s) == Max(MinScale, s - ZoomStep)

PositionAfterZoom_Kept(next, pos) == pos

\* if (next === 1) setPosition({ x: 0, y: 0 })
PositionAfterZoom(next, pos) == IF next = MinScale THEN Origin ELSE pos

\* the guard of handleMouseDown
CanStartDrag == scale > MinScale

CanPan_DraggingOnly == isDragging

\* the guard of handleMouseMove
CanPan == isDragging /\ scale > MinScale

\* what the component looked like before the handler ran
Before == [zoomed |-> scale > MinScale, panned |-> position # Origin,
           dragging |-> isDragging]

Mounted == src # Null

\* no drag in progress
NoAnchor == [set |-> FALSE, x |-> 0, y |-> 0, cx |-> 0, cy |-> 0]

\* The component is rendered (generatedImage set and not loading): its
\* useState initial values, then the [src] effect
Mount(s) ==
    /\ ~Mounted
    /\ src' = s
    /\ scale' = MinScale
    /\ position' = Origin
    /\ isDragging' = FALSE
    /\ dragStart' = Origin
    /\ showHint' = FALSE
    /\ hintTimeoutRef' = FALSE
    /\ hintTimers' = 0
    /\ lastEvent' = [op |-> "mount"]
    /\ dragAnchor' = NoAnchor
    /\ UNCHANGED <<app, copyVars, appVars, zoneVars, subs>>

\* The component is removed (loading starts, or the image is cleared); its
\* state is dropped, and a hint timer still armed later sets state on a
\* component that is gone
Unmount ==
    /\ Mounted
    /\ src' = Null
    /\ scale' = MinScale
    /\ position' = Origin
    /\ isDragging' = FALSE
    /\ dragStart' = Origin
    /\ showHint' = FALSE
    /\ hintTimeoutRef' = FALSE
    /\ hintTimers' = 0
    /\ lastEvent' = [op |-> "unmount"]
    /\ dragAnchor' = NoAnchor
    /\ UNCHANGED <<app, copyVars, appVars, zoneVars, subs>>

SrcChange_NoReset(s) ==
    /\ Mounted
    /\ s # src
    /\ src' = s
    /\ lastEvent' = [op |-> "srcChange", before |-> Before]
    /\ UNCHANGED <<scale, position, isDragging, dragStart, showHint, hintTimeoutRef, hintTimers>>
    /\ UNCHANGED <<app, dragAnchor, copyVars, appVars, zoneVars, subs>>

\* The src prop changes while mounted: useEffect(..., [src])
SrcChange(s) ==
    /\ Mounted
    /\ s # src
    /\ src' = s
    /\ scale' = MinScale
    /\ position' = Origin
    /\ lastEvent' = [op |-> "srcChange", before |-> Before]
    /\ UNCHANGED <<isDragging, dragStart, showHint, hintTimeoutRef, hintTimers>>
    /\ UNCHANGED <<app, dragAnchor, copyVars, appVars, zoneVars, subs>>

MaxTimers == 2     \* hint timers armed together

ArmedAfterWheel_NoClear(timers, ref) == timers + 1

\* if (hintTimeoutRef.current) clearTimeout(hintTimeoutRef.current);
\* hintTimeoutRef.current = setTimeout(...): the timers armed afterwards
ArmedAfterWheel(timers, ref) == (IF ref THEN timers - 1 ELSE timers) + 1

PreventsDefault_WhenFitted(ctrlKey) == ctrlKey \/ scale = MinScale

\* e.preventDefault() is called in the "if (e.ctrlKey)" branch only
PreventsDefault(ctrlKey) == ctrlKey

\* handleWheel (the non-passive DOM listener)
HandleWheel(ctrlKey, deltaY) ==
    /\ Mounted
    /\ IF ctrlKey
       THEN LET delta == -deltaY            \* -e.deltaY * 0.002
                next  == WheelScale(scale, delta)
            IN  /\ scale' = next
                /\ position' = PositionAfterZoom(next, position)
                /\ UNCHANGED <<showHint, hintTimeoutRef, hintTimers>>
       ELSE /\ IF scale = MinScale
               THEN /\ ArmedAfterWheel(hintTimers, hintTimeoutRef) <= MaxTimers
                    /\ showHint' = TRUE
                    /\ hintTimers' = ArmedAfterWheel(hintTimers, hintTimeoutRef)
                    /\ hintTimeoutRef' = TRUE
               ELSE UNCHANGED <<showHint, hintTimeoutRef, hintTimers>>
            /\ UNCHANGED <<scale, position>>
    /\ lastEvent' = [op |-> "wheel", ctrlKey |-> ctrlKey,
                     prevented |-> PreventsDefault(ctrlKey),
                     \* e.deltaY is read with the modifier held only
                     deltaY |-> IF ctrlKey THEN deltaY ELSE 0,
                     rearmed |-> ~ctrlKey /\ scale = MinScale /\ hintTimeoutRef,
                     clamped |-> ctrlKey /\ (scale - deltaY < MinScale
                                              \/ scale - deltaY > MaxScale),
                     before |-> Before]
    /\ UNCHANGED <<src, isDragging, dragStart>>
    /\ UNCHANGED <<app, dragAnchor, copyVars, appVars, zoneVars, subs>>

\* a 2-second timer of the hint fires: the one hintTimeoutRef names
\* (current), or one armed earlier and not cleared
HintTimeout(current) ==
    /\ Mounted
    /\ IF current THEN hintTimeoutRef
       ELSE hintTimers > (IF hintTimeoutRef THEN 1 ELSE 0)
    /\ showHint' = FALSE
    /\ hintTimers' = hintTimers - 1
    /\ hintTimeoutRef' = IF current THEN FALSE ELSE hintTimeoutRef
    /\ lastEvent' = [op |-> "hintTimeout"]
    /\ UNCHANGED <<src, scale, position, isDragging, dragStart>>
    /\ UNCHANGED <<app, dragAnchor, copyVars, appVars, zoneVars, subs>>

HandleMouseDown_IgnoresPosition(cx, cy) ==
    /\ Mounted
    /\ IF CanStartDrag
       THEN /\ isDragging' = TRUE
            /\ dragStart' = [x |-> cx, y |-> cy]
            /\ dragAnchor' = [set |-> TRUE, x |-> position.x, y |-> position.y,
                              cx |-> cx, cy |-> cy]
       ELSE UNCHANGED <<isDragging, dragStart, dragAnchor>>
    /\ lastEvent' = [op |-> "mouseDown", before |-> Before]
    /\ UNCHANGED <<src, scale, position, showHint, hintTimeoutRef, hintTimers>>
    /\ UNCHANGED <<app, copyVars, appVars, zoneVars, subs>>

\* handleMouseDown
HandleMouseDown(cx, cy) ==
    /\ Mounted
    /\ IF CanStartDrag
       THEN /\ isDragging' = TRUE
            /\ dragStart' = [x |-> cx - position.x, y |-> cy - position.y]
            /\ dragAnchor' = [set |-> TRUE, x |-> position.x, y |-> position.y,
                              cx |-> cx, cy |-> cy]
       ELSE UNCHANGED <<isDragging, dragStart, dragAnchor>>
    /\ lastEvent' = [op |-> "mouseDown", before |-> Before]
    /\ UNCHANGED <<src, scale, position, showHint, hintTimeoutRef, hintTimers>>
    /\ UNCHANGED <<app, copyVars, appVars, zoneVars, subs>>

\* handleMouseMove
HandleMouseMove(cx, cy) ==
    /\ Mounted
    /\ LET next == [x |-> cx - dragStart.x, y |-> cy - dragStart.y]
       IN  IF CanPan
           THEN /\ next.x \in -MaxPan..MaxPan
                /\ next.y \in -MaxPan..MaxPan
                /\ position' = next
           ELSE UNCHANGED position
    /\ lastEvent' = IF CanPan
                     THEN [op |-> "mouseMove", before |-> Before, cx |-> cx, cy |-> cy]
                     ELSE [op |-> "mouseMove", before |-> Before]
    /\ UNCHANGED <<src, scale, isDragging, dragStart, showHint, hintTimeoutRef, hintTimers>>
    /\ UNCHANGED <<app, dragAnchor, copyVars, appVars, zoneVars, subs>>

\* handleMouseUp (onMouseUp and onMouseLeave)
HandleMouseUp ==
    /\ Mounted
    /\ isDragging' = FALSE
    /\ dragAnchor' = NoAnchor
    /\ lastEvent' = [op |-> "mouseUp"]
    /\ UNCHANGED <<src, scale, position, dragStart, showHint, hintTimeoutRef, hintTimers>>
    /\ UNCHANGED <<app, copyVars, appVars, zoneVars, subs>>

\* zoomIn; its button is disabled at scale >= 8
ZoomIn ==
    /\ Mounted
    /\ ~(scale >= MaxScale)
    /\ scale' = ZoomInScale(scale)
    /\ lastEvent' = [op |-> "zoomIn", before |-> Before]
    /\ UNCHANGED <<src, position, isDragging, dragStart, showHint, hintTimeoutRef, hintTimers>>
    /\ UNCHANGED <<app, dragAnchor, copyVars, appVars, zoneVars, subs>>

\* zoomOut; its button is disabled at scale <= 1
ZoomOut ==
    /\ Mounted
    /\ ~(scale <= MinScale)
    /\ LET next == ZoomOutScale(scale)
       IN  /\ scale' = next
           /\ position' = PositionAfterZoom(next, position)
    /\ lastEvent' = [op |-> "zoomOut", before |-> Before]
    /\ UNCHANGED <<src, isDragging, dragStart, showHint, hintTimeoutRef, hintTimers>>
    /\ UNCHANGED <<app, dragAnchor, copyVars, appVars, zoneVars, subs>>

Reset_ScaleOnly ==
    /\ Mounted
    /\ scale' = MinScale
    /\ lastEvent' = [op |-> "reset", before |-> Before]
    /\ UNCHANGED <<src, position, isDragging, dragStart, showHint, hintTimeoutRef, hintTimers>>
    /\ UNCHANGED <<app, dragAnchor, copyVars, appVars, zoneVars, subs>>

\* reset
Reset ==
    /\ Mounted
    /\ scale' = MinScale
    /\ position' = Origin
    /\ lastEvent' = [op |-> "reset", before |-> Before]
    /\ UNCHANGED <<src, isDragging, dragStart, showHint, hintTimeoutRef, hintTimers>>
    /\ UNCHANGED <<app, dragAnchor, copyVars, appVars, zoneVars, subs>>

-----------------------------------------------------------------------------
(* Initial state: the state after the components are constructed *)

InitApp ==
    /\ prompt = <<>>
    /\ sourceImages = <<>>
    /\ generatedImage = Null
    /\ isLoading = FALSE
    /\ error = Null
    /\ aspectRatio = "1:1"
    /\ history = <<>>
    /\ requests = <<>>
    /\ now = 0

InitCopy ==
    /\ copies = 0
    /\ isCopied = FALSE
    /\ copiedTimers = 0

InitZone == batches = <<>>

InitView ==
    /\ src = Null
    /\ scale = MinScale
    /\ position = Origin
    /\ isDragging = FALSE
    /\ dragStart = Origin
    /\ showHint = FALSE
    /\ hintTimeoutRef = FALSE
    /\ hintTimers = 0

InitObs ==
    /\ lastEvent = [op |-> "init", commit |-> FALSE]
    /\ dragAnchor = NoAnchor
    /\ subs = <<>>

Init ==
    /\ app \in {"wasti", "nano"}
    /\ InitApp /\ InitCopy /\ InitZone /\ InitView /\ InitObs

-----------------------------------------------------------------------------
(* The ingestion pipeline alone *)

NextIngest ==
    \/ \E files \in FileLists : HandleDrop(files)
    \/ \E files \in FileLists : HandleFileSelect(files)
    \/ \E items \in FileLists : HandlePaste(items)
    \/ \E b \in 1..MaxBatches, i \in 1..MaxFiles : OnLoad(b, i)
    \/ \E b \in 1..MaxBatches, i \in 1..MaxFiles : ReadError(b, i)
    \/ \E index \in 1..MaxImages : HandleRemove(index)
    \/ ClearAll

SpecIngest == Init /\ [][NextIngest]_vars

-----------------------------------------------------------------------------
(* The zoomable viewer alone *)

NextView ==
    \/ \E s \in Srcs : Mount(s)
    \/ Unmount
    \/ \E s \in Srcs : SrcChange(s)
    \/ \E ctrlKey \in BOOLEAN, deltaY \in WheelDeltaYs : HandleWheel(ctrlKey, deltaY)
    \/ \E current \in BOOLEAN : HintTimeout(current)
    \/ \E cx \in Clients, cy \in Clients : HandleMouseDown(cx, cy)
    \/ \E cx \in Clients, cy \in Clients : HandleMouseMove(cx, cy)
    \/ HandleMouseUp
    \/ ZoomIn
    \/ ZoomOut
    \/ Reset

\* ZoomableImage is the same component in both builds
InitViewer == app = "nano" /\ InitApp /\ InitCopy /\ InitZone /\ InitView /\ InitObs

SpecView == InitViewer /\ [][NextView]_vars

-----------------------------------------------------------------------------
(* The application: prompt, one reference image, generation, history.       *)
(* A reference is added only to an empty list here, one file at a time;     *)
(* batches that overlap are the subject of SpecIngest.                      *)

ImageFiles   == { f \in Files : StartsWithImage(f.type) }
OneImageFile == { <<f>> : f \in ImageFiles }

\* the responses the application is run against
AppResponses == { r \in Responses :
                    \/ r.rejected /\ r.message = <<>>
                    \/ ~r.rejected /\ Len(r.candidates) > 0 /\ Len(r.candidates[1]) > 0 }

NextApp ==
    \/ \E p \in PromptInputs : SetPrompt(p)
    \/ \E r \in Ratios : SetAspectRatio(r)
    \/ \E files \in OneImageFile : sourceImages = <<>> /\ batches = <<>>
                                     /\ HandleFileSelect(files)
    \/ OnLoad(1, 1)
    \/ HandleRemove(1)
    \/ ClickGenerate
    \/ HandleKeyDown
    \/ \E response \in AppResponses : GenerateSettles(1, response, "k")
    \/ \E n \in 1..MaxHistory : HandleRestoreHistory(n)
    \/ \E n \in 1..MaxHistory : HandleHistoryClick(n)
    \/ \E n \in 1..MaxHistory : HandleDeleteHistory(n)
    \/ ClearHistory

SpecApp == Init /\ [][NextApp]_vars

-----------------------------------------------------------------------------
(* Properties of the ingestion pipeline *)

\* What the files of a batch are expected to contribute: the encoded images of
\* the files whose type starts with 'image/', in the order of the batch
RECURSIVE ImagesInBatchOrder(_)
ImagesInBatchOrder(files) ==
    IF files = <<>> THEN <<>>
    ELSE (IF Head(files).type[1] = "image/"
          THEN <<[data |-> <<"data:">> \o Head(files).type
                              \o <<";", "base64,", Head(files).bytes>>,
                  mimeType |-> Head(files).type]>>
          ELSE <<>>)
         \o ImagesInBatchOrder(Tail(files))

\* C1: the list a batch commits is the list at its submission followed by its
\* K encoded images in the order the files had in the batch, whatever the
\* order of the onload callbacks.
C1_CommitKeepsBatchOrder ==
    lastEvent.commit =>
        lastEvent.list = lastEvent.base \o ImagesInBatchOrder(lastEvent.files)

\* C2: two batches submitted back-to-back, both complete: the list is the old
\* list, then the images of the first batch, then those of the second.
C2_BackToBackBatchesBothKept ==
    (batches = <<>> /\ Len(subs) = 2) =>
        sourceImages = subs[1].base \o ImagesInBatchOrder(subs[1].files)
                                   \o ImagesInBatchOrder(subs[2].files)

-----------------------------------------------------------------------------
(* Properties of the viewer *)

\* C4: after any sequence of wheel-zoom, zoomIn, zoomOut, reset, pan and
\* image-change operations the scale is within [1, 8].
C4_ScaleWithinOneAndEight == 1 * UnitsPerOne <= scale /\ scale <= 8 * UnitsPerOne

\* a wheel zoom whose raw result was out of range and ended at 8
C4_Witness ==
    lastEvent.op = "wheel" /\ lastEvent.clamped /\ scale = 8 * UnitsPerOne

C6_ImageChangeResets ==
    lastEvent.op \in {"srcChange", "mount"} =>
        (scale = 1 * UnitsPerOne /\ position.x = 0 /\ position.y = 0)

\* the image changed under a zoomed, panned view in the middle of a drag
C6_Witness ==
    /\ lastEvent.op = "srcChange"
    /\ lastEvent.before.zoomed /\ lastEvent.before.panned
    /\ lastEvent.before.dragging

\* C7: while scale = 1, a mouse-down and any mouse-move leave the translation
\* as it is and start no drag.
C7_NoPanWhileFitted ==
    [][ (scale = 1 * UnitsPerOne /\ lastEvent'.op \in {"mouseDown", "mouseMove"})
        => (position' = position /\ isDragging' = isDragging) ]_vars

\* a pointer move at scale 1 while the flag of an earlier drag is still set,
\* at a place where the drag start would give another translation
C7_Witness ==
    /\ lastEvent.op = "mouseMove"
    /\ ~lastEvent.before.zoomed /\ lastEvent.before.dragging
    /\ scale = 1 * UnitsPerOne
    /\ dragStart # Origin

-----------------------------------------------------------------------------
(* Properties of the application *)

\* C3: while a generation is in flight (isLoading) no submit attempt, click
\* or Enter, dispatches another generateOrEditImage call, and at most one
\* call is outstanding at any time.
C3_OneRequestAtATime ==
    [][ /\ isLoading => Len(requests') <= Len(requests)
        /\ Len(requests') <= 1 ]_vars

\* Enter pressed while the request is in flight: nothing was sent
C3_Witness ==
    /\ lastEvent.op = "keyDown"
    /\ lastEvent.busy /\ ~lastEvent.sent
    /\ isLoading /\ Len(requests) = 1

\* C8: a successful generation puts its result in front of the history and
\* leaves the entries that were there behind it, in their order.
C8_RecordPrepends ==
    [][ (lastEvent'.op = "settled" /\ lastEvent'.ok) =>
            /\ Len(history') = Len(history) + 1
            /\ Tail(history') = history
            /\ Head(history').url = lastEvent'.value ]_vars

\* R1 then R2: two different results, the later one first
C8_Witness ==
    /\ lastEvent.op = "settled" /\ lastEvent.ok
    /\ Len(history) = 2
    /\ history[1].url = lastEvent.value
    /\ history[2].url # history[1].url

\* C9: a submit of prompt P with no source images and ratio A hands the
\* generation client exactly (P, [], A); when it succeeds the first history
\* entry has prompt P, no source images and the returned image.
C9_TextOnlyRequest ==
    [][ /\ (lastEvent'.op \in {"click", "keyDown"} /\ lastEvent'.sent
            /\ sourceImages = <<>>) =>
               requests' = Append(requests,
                               [prompt |-> prompt, sourceImages |-> <<>>,
                                aspectRatio |-> aspectRatio])
        /\ (lastEvent'.op = "settled" /\ lastEvent'.ok
            /\ lastEvent'.request.sourceImages = <<>>) =>
               /\ lastEvent'.request = requests[1]
               /\ Head(history').prompt = requests[1].prompt
               /\ Head(history').sourceImages = <<>>
               /\ Head(history').url = lastEvent'.value
               /\ generatedImage' = lastEvent'.value ]_vars

\* a prompt with a leading blank, sent with ratio 16:9 and no images, has
\* succeeded, and the prompt was edited while it was in flight
C9_Witness ==
    /\ lastEvent.op = "settled" /\ lastEvent.ok
    /\ lastEvent.request = [prompt |-> <<" ", "b">>, sourceImages |-> <<>>,
                             aspectRatio |-> "16:9"]
    /\ history[1].prompt = <<" ", "b">>
    /\ history[1].sourceImages = <<>>
    /\ prompt # <<" ", "b">>

\* C10: restoring a history entry gives each restored source image the media
\* type its stored payload carries between "data:" and the first ";".
C10_RestoreReadsTag ==
    lastEvent.op = "restore" =>
        /\ Len(sourceImages) = Len(lastEvent.item.sourceImages)
        /\ \A k \in 1..Len(sourceImages) :
              LET d == lastEvent.item.sourceImages[k]
                  m == sourceImages[k].mimeType
              IN  /\ sourceImages[k].data = d
                  /\ (/\ Len(d) >= 3 /\ d[1] = "data:" /\ d[2] # ";"
                      /\ \E j \in 3..Len(d) : d[j] = ";")
                     => /\ m # <<>>
                        /\ \A i \in 1..Len(m) : m[i] = d[i + 1] /\ m[i] # ";"
                        /\ d[Len(m) + 2] = ";"

\* an entry made with a JPEG reference has been restored
C10_Witness ==
    /\ lastEvent.op = "restore"
    /\ Len(sourceImages) = 1
    /\ sourceImages[1].data = <<"data:", "image/", "jpeg", ";", "base64,", "f2">>
    /\ sourceImages[1].mimeType = <<"image/", "jpeg">>

-----------------------------------------------------------------------------
(* Properties of ingestion, history and viewport: frame conditions *)

\* C11: a batch in which no file has a type starting with 'image/' (the
\* empty batch included) never calls onImagesChange, and the source-image
\* list and the batches in flight are as they were.
C11_NoValidImageNoCommit ==
    [][ (/\ lastEvent'.op \in {"processFiles", "paste"}
         /\ \A k \in 1..Len(lastEvent'.files) :
                ~StartsWithImage(lastEvent'.files[k].type))
        => /\ ~lastEvent'.commit
           /\ sourceImages' = sourceImages
           /\ batches' = batches ]_vars

\* a file that is not an image, handed over while the list holds an image
C11_Witness ==
    /\ lastEvent.op = "processFiles"
    /\ Len(lastEvent.files) = 1
    /\ lastEvent.files[1].type = TXT
    /\ ~lastEvent.commit
    /\ sourceImages # <<>>


\* the number of files of a batch whose type starts with 'image/'
ValidCount(files) == Cardinality({k \in 1..Len(files) : StartsWithImage(files[k].type)})

\* C12: a batch with a valid image calls onImagesChange exactly once: when
\* the last of its reads has ended the commit is made, and it is made at no
\* other point (never in the synchronous pass, never while a file of the
\* batch is still being read); the list committed holds the images of all
\* its valid files.
C12_ExactlyOneCommit ==
    /\ (lastEvent.op = "processFiles" /\ ValidCount(lastEvent.files) > 0)
          => ~lastEvent.commit
    /\ (lastEvent.op \in {"onload", "readError"}
         /\ ValidCount(lastEvent.files) > 0)
          => /\ lastEvent.commit <=> lastEvent.pending = 0
             /\ lastEvent.commit
                  => /\ Len(lastEvent.list) =
                           Len(lastEvent.base) + ValidCount(lastEvent.files)
                     /\ \A k \in 1..Len(lastEvent.files) :
                           StartsWithImage(lastEvent.files[k].type)
                           => \E j \in 1..Len(lastEvent.list) :
                                 lastEvent.list[j].data =
                                     ReadAsDataURL(lastEvent.files[k])

\* C12, the part that holds: a commit is made only by the onload that brings
\* the number of encoded files to the number of valid files of the batch,
\* with no read of the batch outstanding, and it holds all their images.
C12_NoPartialCommit ==
    /\ (lastEvent.op = "processFiles" /\ ValidCount(lastEvent.files) > 0)
          => ~lastEvent.commit
    /\ lastEvent.op = "readError" => ~lastEvent.commit
    /\ lastEvent.op = "onload"
          => /\ lastEvent.commit <=> lastEvent.read = ValidCount(lastEvent.files)
             /\ lastEvent.commit
                  => /\ lastEvent.pending = 0
                     /\ Len(lastEvent.list) =
                           Len(lastEvent.base) + ValidCount(lastEvent.files)

-----------------------------------------------------------------------------
(* The history alone: generations at any time of the clock, with any random *)
(* suffix, and the operations on the tiles                                   *)

NextHistory ==
    \/ \E p \in PromptInputs : SetPrompt(p)
    \/ Tick
    \/ ClickGenerate
    \/ \E response \in AppResponses, suffix \in RandomSuffixes :
           GenerateSettles(1, response, suffix)
    \/ HandleKeyDown
    \/ \E n \in 1..MaxHistory : HandleRestoreHistory(n)
    \/ \E n \in 1..MaxHistory : HandleHistoryClick(n)
    \/ \E n \in 1..MaxHistory : HandleDeleteHistory(n)
    \/ ClearHistory

SpecHistory == Init /\ [][NextHistory]_vars

\* C13: deleting a tile removes at most one entry of the history and leaves
\* the others in their order, whatever ids the generations have produced.
C13_DeleteRemovesAtMostOne ==
    [][ lastEvent'.op = "delete" =>
          \/ history' = history
          \/ \E j \in 1..Len(history) : history' = RemoveAt(history, j) ]_vars

-----------------------------------------------------------------------------
(* Properties of failures *)

\* C14: when the generation call fails or brings no image, the failure ends
\* as one message in the error field; no history entry is added, the
\* displayed image stays, the request is over and no other one is sent.
C14_FailureIsOneMessage ==
    [][ (lastEvent'.op = "settled" /\ ~lastEvent'.ok) =>
          /\ error' # Null /\ Len(error') >= 1
          /\ history' = history
          /\ (generatedImage = Null) <=> (generatedImage' = Null)
          /\ generatedImage # Null => generatedImage = generatedImage'
          /\ requests' = <<>>
          /\ ~isLoading' ]_vars

\* a generation that brought text only, after one that succeeded: the image
\* and the entry of the first are still there
C14_Witness ==
    /\ lastEvent.op = "settled" /\ ~lastEvent.ok
    /\ error = <<"Model returned text instead of image: ", "sorry">>
    /\ generatedImage # Null
    /\ Len(history) = 1 /\ history[1].url = generatedImage
    /\ requests = <<>>

-----------------------------------------------------------------------------
(* Copy to clipboard (wasti build) *)

MaxCopies == 1     \* clipboard writes in flight together, and armed timers

\* handleCopyToClipboard up to its first await; the button is rendered while
\* generatedImage && !isLoading
HandleCopyToClipboard ==
    /\ app = "wasti"
    /\ generatedImage # Null /\ ~isLoading
    /\ copies < MaxCopies
    /\ copies' = copies + 1
    /\ lastEvent' = [op |-> "copy"]
    /\ UNCHANGED <<app, dragAnchor, appVars, isCopied, copiedTimers, zoneVars,
                   viewVars, subs>>

\* handleCopyToClipboard after its awaits: fetch, blob and clipboard.write
\* went through (written), or one of them threw
CopySettles(written) ==
    /\ copies > 0
    /\ copies' = copies - 1
    /\ IF written
       THEN /\ copiedTimers < MaxCopies
            /\ isCopied' = TRUE
            /\ copiedTimers' = copiedTimers + 1
            /\ UNCHANGED error
       ELSE /\ error' = <<"Clipboard access denied.">>
            /\ UNCHANGED <<isCopied, copiedTimers>>
    /\ lastEvent' = [op |-> "copySettled", ok |-> written]
    /\ UNCHANGED <<app, dragAnchor, prompt, sourceImages, generatedImage, isLoading,
                   aspectRatio,
                   history, requests, now, zoneVars, viewVars, subs>>

\* setTimeout(() => setIsCopied(false), 2000)
CopiedTimeout ==
    /\ copiedTimers > 0
    /\ copiedTimers' = copiedTimers - 1
    /\ isCopied' = FALSE
    /\ lastEvent' = [op |-> "copiedTimeout"]
    /\ UNCHANGED <<app, dragAnchor, appVars, copies, zoneVars, viewVars, subs>>

InitWasti == app = "wasti" /\ InitApp /\ InitCopy /\ InitZone /\ InitView /\ InitObs

NextCopy ==
    \/ \E p \in PromptInputs : SetPrompt(p)
    \/ ClickGenerate
    \/ HandleKeyDown
    \/ \E response \in AppResponses : GenerateSettles(1, response, "k")
    \/ HandleCopyToClipboard
    \/ \E written \in BOOLEAN : CopySettles(written)
    \/ CopiedTimeout
    \/ \E n \in 1..MaxHistory : HandleHistoryClick(n)
    \/ ClearHistory

SpecCopy == InitWasti /\ [][NextCopy]_vars

\* C15: in the state right after a generation has succeeded the error field
\* is null, whatever else has run since the request was sent.
C15_SuccessLeavesNoError ==
    (lastEvent.op = "settled" /\ lastEvent.ok) => error = Null

-----------------------------------------------------------------------------
(* Properties of the history *)

\* s is t with some entries left out (the entries of s, in their order)
IsSubsequence(s, t) ==
    \E f \in [1..Len(s) -> 1..Len(t)] :
        /\ \A i \in 1..Len(s) : t[f[i]] = s[i]
        /\ \A i, j \in 1..Len(s) : i < j => f[i] < f[j]

\* no entry is older than the one after it
NewestFirst(h) ==
    \A i \in 1..(Len(h) - 1) : h[i].timestamp >= h[i + 1].timestamp

\* C16: the history is newest-first after every step; every operation but
\* delete and clear-all keeps all the entries that were there, in their
\* order; clear-all leaves the history empty.
C16_HistoryKeepsOrder ==
    [][ /\ NewestFirst(history')
        /\ lastEvent'.op \notin {"delete", "clearHistory"}
             => IsSubsequence(history, history')
        /\ lastEvent'.op = "clearHistory" => history' = <<>> ]_vars

\* the older of two entries, made at different times, has been restored
C16_Witness ==
    /\ lastEvent.op = "restore"
    /\ Len(history) = 2
    /\ history[1].timestamp > history[2].timestamp
    /\ lastEvent.item = history[2]


\* C17: restoring a history entry (a click on its tile) leaves the history
\* as it is and sets the displayed image, the prompt and the whole
\* source-image list to the values of the entry, the empty list when the
\* entry has no source images.
C17_RestoreIsReadOnly ==
    [][ lastEvent'.op \in {"restore", "historyClick"} =>
          LET item == lastEvent'.item
          IN  /\ history' = history
              /\ \E n \in 1..Len(history) : history[n] = item
              /\ generatedImage' = item.url
              /\ prompt' = item.prompt
              /\ Len(sourceImages') = Len(item.sourceImages)
              /\ \A k \in 1..Len(item.sourceImages) :
                    sourceImages'[k].data = item.sourceImages[k] ]_vars

\* C17 for the nano build alone, whose tiles call handleRestoreHistory
C17_RestoreIsReadOnly_Nano ==
    [][ lastEvent'.op = "restore" =>
          LET item == lastEvent'.item
          IN  /\ history' = history
              /\ generatedImage' = item.url
              /\ prompt' = item.prompt
              /\ Len(sourceImages') = Len(item.sourceImages)
              /\ \A k \in 1..Len(item.sourceImages) :
                    sourceImages'[k].data = item.sourceImages[k] ]_vars


\* the payloads of a source-image list, in list order
Payloads(images) == [k \in 1..Len(images) |-> images[k].data]

\* C18: the entry made by a successful generation holds the prompt and the
\* source-image payloads of the moment of submission, in list order: the
\* submit hands over the prompt and the list as they are then, and the entry
\* is made of what was handed over, whatever the prompt and the list are
\* when the call returns.
C18_EntryIsSnapshotOfSubmission ==
    /\ (lastEvent.op \in {"click", "keyDown"} /\ lastEvent.sent) =>
          /\ requests # <<>>
          /\ requests[Len(requests)].prompt = prompt
          /\ requests[Len(requests)].sourceImages = sourceImages
    /\ (lastEvent.op = "settled" /\ lastEvent.ok) =>
          /\ history[1].prompt = lastEvent.request.prompt
          /\ history[1].sourceImages = Payloads(lastEvent.request.sourceImages)

\* a generation with one reference has succeeded after the prompt was
\* changed and the reference removed while it was in flight
C18_Witness ==
    /\ lastEvent.op = "settled" /\ lastEvent.ok
    /\ Len(history[1].sourceImages) = 1
    /\ sourceImages = <<>>
    /\ history[1].prompt # prompt

-----------------------------------------------------------------------------
(* Properties of the viewport: reset and drag *)

\* C19: the reset control leaves the viewport at scale 1, translation
\* (0,0), from every state it is used in, a drag in progress included.
C19_ResetFitsTheImage ==
    lastEvent.op = "reset" => (scale = 1 * UnitsPerOne /\ position = [x |-> 0, y |-> 0])

\* reset was used on a zoomed, panned view in the middle of a drag, and the
\* drag is still on
C19_Witness ==
    /\ lastEvent.op = "reset"
    /\ lastEvent.before.zoomed /\ lastEvent.before.panned
    /\ lastEvent.before.dragging /\ isDragging


\* C20: during a drag at scale > 1, after each pointer move the translation
\* is the translation at the mouse-down that started the drag plus the way
\* the pointer has gone since, whatever was zoomed in between.
C20_DragFollowsPointer ==
    (/\ lastEvent.op = "mouseMove"
     /\ lastEvent.before.dragging /\ lastEvent.before.zoomed)
    => /\ dragAnchor.set
       /\ position.x = dragAnchor.x + (lastEvent.cx - dragAnchor.cx)
       /\ position.y = dragAnchor.y + (lastEvent.cy - dragAnchor.cy)

\* a drag that started on a panned view has moved the image
C20_Witness ==
    /\ lastEvent.op = "mouseMove"
    /\ lastEvent.before.dragging /\ lastEvent.before.zoomed
    /\ dragAnchor.set
    /\ dragAnchor.x # 0
    /\ lastEvent.cx # dragAnchor.cx
    /\ position.x # dragAnchor.x

-----------------------------------------------------------------------------
(* Properties of the viewport: zoom steps, wheel, hint *)

\* clamp(v, 1, 8), in units of 0.002
Clamp(v) == IF v < 1 * UnitsPerOne THEN 1 * UnitsPerOne
            ELSE IF v > 8 * UnitsPerOne THEN 8 * UnitsPerOne ELSE v

\* C21: every zoom operation ends at clamp(old scale + delta, 1, 8), with
\* delta +0.5 for zoom-in, -0.5 for zoom-out and -deltaY * 0.002 for a wheel
\* event with the modifier held; zoom-in leaves the translation as it is.
C21_ZoomIsClampedStep ==
    [][ /\ lastEvent'.op = "zoomIn"
           => /\ scale' = Clamp(scale + 250)
              /\ position' = position
        /\ lastEvent'.op = "zoomOut" => scale' = Clamp(scale - 250)
        /\ (lastEvent'.op = "wheel" /\ lastEvent'.ctrlKey)
           => scale' = Clamp(scale - lastEvent'.deltaY) ]_vars

\* zoom-in has taken a panned view from 7.75 to the upper limit
C21_Witness ==
    /\ lastEvent.op = "zoomIn"
    /\ scale = 8 * UnitsPerOne
    /\ lastEvent.before.panned /\ position # [x |-> 0, y |-> 0]

\* C22: a wheel event with the modifier held has its default action
\* suppressed and zooms (the scale moves by the wheel delta, no hint is
\* raised); a wheel event without the modifier keeps its default action and
\* leaves scale and translation as they are, at every scale.
C22_ModifierDecidesWheel ==
    [][ lastEvent'.op = "wheel" =>
          IF lastEvent'.ctrlKey
          THEN /\ lastEvent'.prevented
               /\ scale' = Clamp(scale - lastEvent'.deltaY)
               /\ showHint' = showHint
          ELSE /\ ~lastEvent'.prevented
               /\ scale' = scale
               /\ position' = position ]_vars

\* a wheel event without the modifier on a zoomed, panned view
C22_Witness ==
    /\ lastEvent.op = "wheel"
    /\ ~lastEvent.ctrlKey /\ ~lastEvent.prevented
    /\ lastEvent.before.zoomed /\ lastEvent.before.panned
    /\ scale > 1 * UnitsPerOne /\ position # [x |-> 0, y |-> 0]

-----------------------------------------------------------------------------
(* The viewer without the pointer: zoom, wheel and the hint, with the hint   *)
(* timer firing once it is armed and left alone                              *)

\* {showHint && scale === 1 && ( ... )}: the hint is on the screen
HintDisplayed == showHint /\ scale = MinScale

NextHint ==
    \/ \E s \in Srcs : Mount(s)
    \/ Unmount
    \/ \E s \in Srcs : SrcChange(s)
    \/ \E ctrlKey \in BOOLEAN, deltaY \in WheelDeltaYs : HandleWheel(ctrlKey, deltaY)
    \/ \E current \in BOOLEAN : HintTimeout(current)
    \/ ZoomIn
    \/ ZoomOut
    \/ Reset

SpecHint == InitViewer /\ [][NextHint]_vars
                       /\ WF_vars(\E current \in BOOLEAN : HintTimeout(current))

\* C23: the hint is raised only by a wheel event without the modifier at
\* scale 1 and is on the screen only at scale 1; a raised hint has exactly
\* one armed timer (a repeated wheel event replaces the timer, none is left
\* behind), and the timer takes the hint away with no user action.
C23_HintClearsByItself ==
    /\ [][ (~showHint /\ showHint')
            => /\ lastEvent'.op = "wheel" /\ ~lastEvent'.ctrlKey
               /\ scale = 1 * UnitsPerOne /\ scale' = scale ]_vars
    /\ [](HintDisplayed => scale = 1 * UnitsPerOne)
    /\ [](hintTimers <= 1 /\ (showHint => hintTimers = 1))
    /\ (showHint ~> ~showHint)

\* a second wheel event without the modifier while the hint of the first is
\* still up: one timer is armed
C23_Witness ==
    /\ lastEvent.op = "wheel" /\ ~lastEvent.ctrlKey
    /\ ~lastEvent.before.zoomed /\ lastEvent.rearmed
    /\ showHint /\ hintTimeoutRef /\ hintTimers = 1

-----------------------------------------------------------------------------
(* The generation service against every shape of response *)

\* further shapes: two images, two texts, a part with an empty text, and a
\* second candidate
ServiceResponses ==
    Responses \cup
    { [rejected |-> FALSE, message |-> <<>>,
       candidates |-> << <<InlinePart(JPEG, "r2"), InlinePart(PNG, "r1")>> >>],
      [rejected |-> FALSE, message |-> <<>>,
       candidates |-> << <<TextPart("sorry"), TextPart("no")>> >>],
      [rejected |-> FALSE, message |-> <<>>,
       candidates |-> << <<TextPart("")>> >>],
      [rejected |-> FALSE, message |-> <<>>,
       candidates |-> << <<>>, <<InlinePart(PNG, "r1")>> >>] }

NextService ==
    \/ \E p \in PromptInputs : SetPrompt(p)
    \/ \E r \in Ratios : SetAspectRatio(r)
    \/ ClickGenerate
    \/ HandleKeyDown
    \/ \E response \in ServiceResponses : GenerateSettles(1, response, "k")

SpecService == Init /\ [][NextService]_vars

\* C24: generateOrEditImage returns the data URL of the first part of the
\* first candidate that has inline data, and nothing but an image data URL;
\* with text and no inline data it throws a message that holds the text;
\* with neither it throws the fixed 'No image generated' message.
C24_OneImageOrAMessage ==
    (lastEvent.op = "settled" /\ ~lastEvent.response.rejected) =>
        LET cands == lastEvent.response.candidates
            parts == IF cands = <<>> THEN <<>> ELSE cands[1]
            imgs  == {k \in 1..Len(parts) : parts[k].kind = "inlineData"}
            txts  == {k \in 1..Len(parts) : parts[k].kind = "text" /\ parts[k].text # ""}
        IN  /\ imgs # {} =>
                  /\ lastEvent.ok
                  /\ \E k \in imgs :
                        /\ \A j \in imgs : k <= j
                        /\ lastEvent.value = <<"data:">> \o parts[k].mimeType
                                                \o <<";", "base64,", parts[k].data>>
            /\ (imgs = {} /\ txts # {}) =>
                  /\ ~lastEvent.ok
                  /\ \E k \in txts :
                        /\ \A j \in txts : k <= j
                        /\ \E m \in 1..Len(lastEvent.thrown) :
                               lastEvent.thrown[m] = parts[k].text
            /\ (imgs = {} /\ txts = {}) =>
                  /\ ~lastEvent.ok
                  /\ lastEvent.thrown =
                        <<"No image generated. The model response was empty or invalid.">>
            /\ lastEvent.ok =>
                  /\ Len(lastEvent.value) >= 2
                  /\ lastEvent.value[1] = "data:" /\ lastEvent.value[2] = "image/"

\* a response whose first part is text and whose second part is an image
\* has come back: the image is returned
C24_Witness ==
    /\ lastEvent.op = "settled" /\ lastEvent.ok
    /\ lastEvent.response.candidates = << <<TextPart("sorry"), InlinePart(JPEG, "r2")>> >>
    /\ lastEvent.value = <<"data:", "image/", "jpeg", ";", "base64,", "r2">>

-----------------------------------------------------------------------------
(* The source-image list under all its writers: one file at a time being    *)
(* encoded, removal, clear-all, generation, restore and use-as-reference     *)

SourcePrompts   == { <<"a">> }
SourceResponses == { r \in Responses :
                       /\ ~r.rejected /\ Len(r.candidates) > 0
                       /\ \E k \in 1..Len(r.candidates[1]) :
                              r.candidates[1][k].kind = "inlineData" }

NextSources ==
    \/ \E p \in SourcePrompts : SetPrompt(p)
    \/ \E files \in OneImageFile : batches = <<>> /\ HandleFileSelect(files)
    \/ OnLoad(1, 1)
    \/ \E index \in 1..MaxImages : HandleRemove(index)
    \/ ClearAll
    \/ ClickGenerate
    \/ \E response \in SourceResponses : GenerateSettles(1, response, "k")
    \/ \E n \in 1..MaxHistory : HandleRestoreHistory(n)
    \/ HandleUseAsReference

SpecSources == Init /\ [][NextSources]_vars

\* C25: removal at index i takes the entry at position i out of the list and
\* keeps the others in their order; use-as-reference puts the displayed
\* image at the end of the list and clears the display, and changes nothing
\* when no image is displayed; each is one step.
C25_RemoveAndUseAsSource ==
    [][ /\ lastEvent'.op = "remove" =>
              LET i == lastEvent'.index
              IN  /\ Len(sourceImages') = Len(sourceImages) - 1
                  /\ \A k \in 1..Len(sourceImages') :
                        sourceImages'[k] = IF k < i THEN sourceImages[k]
                                           ELSE sourceImages[k + 1]
        /\ lastEvent'.op = "useAsReference" =>
              IF generatedImage = Null
              THEN /\ sourceImages' = sourceImages
                   /\ generatedImage' = Null
              ELSE /\ Len(sourceImages') = Len(sourceImages) + 1
                   /\ SubSeq(sourceImages', 1, Len(sourceImages)) = sourceImages
                   /\ generatedImage = sourceImages'[Len(sourceImages')].data
                   /\ generatedImage' = Null ]_vars

\* the first of two different source images has been removed
C25_Witness ==
    /\ lastEvent.op = "remove" /\ lastEvent.index = 1
    /\ Len(sourceImages) = 1
    /\ sourceImages[1].data = <<"data:", "image/", "jpeg", ";", "base64,", "f2">>

\* a result has been taken as the second source image
C25_WitnessUse ==
    /\ lastEvent.op = "useAsReference" /\ lastEvent.applied
    /\ Len(sourceImages) = 2 /\ generatedImage = Null

\* C26: a change made to the list while a batch is still being encoded is
\* kept by that batch's commit: the list after the commit is the list just
\* before it followed by the images of the batch.
C26_CommitKeepsUserEdits ==
    [][ (lastEvent'.op = "onload" /\ lastEvent'.commit) =>
          /\ Len(sourceImages') = Len(sourceImages) + ValidCount(lastEvent'.files)
          /\ SubSeq(sourceImages', 1, Len(sourceImages)) = sourceImages ]_vars

\* C26, what the code does instead: the commit writes the list of the time
\* the batch was handed over, followed by the images of the batch
C26_CommitWritesSubmissionList ==
    [][ (lastEvent'.op = "onload" /\ lastEvent'.commit) =>
          /\ Len(sourceImages') = Len(lastEvent'.base) + ValidCount(lastEvent'.files)
          /\ SubSeq(sourceImages', 1, Len(lastEvent'.base)) = lastEvent'.base ]_vars

\* the media type between "data:" and the first ";" of a data URL
TagOf(data) ==
    LET semis == {j \in 2..Len(data) : data[j] = ";"}
    IN  IF Len(data) >= 1 /\ data[1] = "data:" /\ semis # {}
        THEN SubSeq(data, 2, (CHOOSE j \in semis : \A i \in semis : j <= i) - 1)
        ELSE <<>>

\* C27: every entry of the source-image list has the mimeType that its own
\* data URL carries as its tag, whatever made the entry.
C27_MimeTypeIsOwnTag ==
    \A k \in 1..Len(sourceImages) :
        sourceImages[k].mimeType = TagOf(sourceImages[k].data)

-----------------------------------------------------------------------------
(* Properties of the busy flag *)

\* C28: when the generation call has settled, with a result or with a
\* failure, isLoading is false and the submit button is disabled by a blank
\* prompt only; isLoading is never set while no call is outstanding.
C28_BusyFlagIsCleared ==
    /\ isLoading => Len(requests) > 0
    /\ lastEvent.op = "settled" =>
          /\ ~isLoading
          /\ SubmitDisabled <=> (\A k \in 1..Len(prompt) : prompt[k] = " ")

\* a call has failed and the prompt is still there: submit is enabled
C28_Witness ==
    /\ lastEvent.op = "settled" /\ ~lastEvent.ok
    /\ error # Null
    /\ ~isLoading /\ requests = <<>>
    /\ ~SubmitDisabled

-----------------------------------------------------------------------------
(* Properties of ingestion: read errors *)

\* C29: when the last read of a batch with an image file has ended, in
\* success or in an error, the batch has made its commit, and the commit
\* holds the images of the files that were read.
C29_CommitWhenReadsEnd ==
    (/\ lastEvent.op \in {"onload", "readError"}
     /\ ValidCount(lastEvent.files) > 0
     /\ lastEvent.pending = 0)
    => /\ lastEvent.commit
       /\ Len(lastEvent.list) = Len(lastEvent.base) + lastEvent.read

\* C29, without read errors: the onload that ends the last read of a batch
\* of which every read succeeded makes the commit
C29_CommitWhenAllReadsSucceed ==
    (/\ lastEvent.op = "onload"
     /\ lastEvent.pending = 0
     /\ lastEvent.read = ValidCount(lastEvent.files))
    => /\ lastEvent.commit
       /\ Len(lastEvent.list) = Len(lastEvent.base) + lastEvent.read

-----------------------------------------------------------------------------
(* Properties of the viewport: the drag flag *)

\* C30: in every reachable state of the viewport a drag in progress implies
\* scale > 1.
C30_DragImpliesZoomed == isDragging => scale > 1 * UnitsPerOne

\* C30, what the code keeps: a drag starts at scale > 1 only, and while the
\* scale is 1 no pointer move changes the translation
C30_FittedDragDoesNotPan ==
    [][ /\ (~isDragging /\ isDragging') => scale > 1 * UnitsPerOne
        /\ (scale = 1 * UnitsPerOne /\ lastEvent'.op = "mouseMove")
             => position' = position ]_vars

====
